---------------------------- MODULE Spec2Model ----------------------------
(***************************************************************************)
(* Model of highlight-words-core (src/unnamed/part_000, the variant of     *)
(* utils.js with span support; src/src/utils.js is the same code without   *)
(* spans).  The library is four pure functions                             *)
(*     findAll = fillInChunks . combineChunks . findChunks                 *)
(* Offsets are 0-based as in the source; TLA+ sequences are 1-based, so    *)
(* the character at offset p of a string s is s[p + 1].                    *)
(*                                                                         *)
(* An optional property of a JavaScript object (chunk.searchWordsIndexes,  *)
(* chunk.spansIndexes, the spans argument) is modelled as a sequence of    *)
(* length at most one: None when the property is absent, Some(v) when it   *)
(* holds v.                                                                *)
(***************************************************************************)
EXTENDS Integers, Sequences, FiniteSets

\* ------------------------------------------------------------------ bounds
MaxTextLen == 2
MaxWords == 2
MaxScanWords == 1
MaxSpans == 1
MaxPos == 3
MaxChunks == 3
MaxTotalLength == 4
MaxFillChunks == 2

\* --------------------------------------------------------- JavaScript values
None == <<>>
Some(v) == <<v>>
IsSome(o) == Len(o) > 0
Get(o) == o[1]

JsString(s) == [type |-> "string", value |-> s]
Undefined == [type |-> "undefined", value |-> <<>>]
Null == [type |-> "null", value |-> <<>>]

\* `textToHighlight ? a : b`: only a non-empty string is truthy here.
Truthy(v) == v.type = "string" /\ Len(v.value) > 0

\* ToString, applied by RegExp.prototype.exec to its argument.
JsToString(v) ==
  IF v.type = "string" THEN v.value
  ELSE IF v.type = "undefined" THEN <<"u", "n", "d", "e", "f", "i", "n", "e", "d">>
  ELSE <<"n", "u", "l", "l">>

Max(a, b) == IF a >= b THEN a ELSE b

\* ------------------------------------------------------------------- chunks
Chunk(start, end, highlight, searchWordsIndexes, spansIndexes) ==
  [start |-> start, end |-> end, highlight |-> highlight,
   searchWordsIndexes |-> searchWordsIndexes, spansIndexes |-> spansIndexes]

\* ------------------------------------------------------ the pattern engine
defaultSanitize(string) == string

MetaChars ==
  {"-", "[", "]", "/", "{", "}", "(", ")", "*", "+", "?", ".", "\\", "^", "$", "|"}

\* string.replace(/[\-\[\]\/\{\}\(\)\*\+\?\.\\\^\$\|]/g, '\\$&')
RECURSIVE escapeRegExpFn(_)
escapeRegExpFn(string) ==
  IF string = <<>> THEN <<>>
  ELSE (IF string[1] \in MetaChars THEN <<"\\", string[1]>> ELSE <<string[1]>>)
         \o escapeRegExpFn(Tail(string))

\* new RegExp(source): the source is read as a sequence of atoms, each a
\* literal character, an escaped character (\c, literal c) or . (any
\* character), optionally followed by the greedy quantifier *.
RECURSIVE ParseRegExp(_)
ParseRegExp(source) ==
  IF source = <<>> THEN <<>>
  ELSE LET esc == source[1] = "\\"
           n == IF esc THEN 2 ELSE 1
           star == Len(source) > n /\ source[n + 1] = "*"
           rest == SubSeq(source, n + (IF star THEN 2 ELSE 1), Len(source))
       IN <<[any |-> ~esc /\ source[n] = ".", ch |-> source[n], star |-> star]>>
            \o ParseRegExp(rest)

\* The sources new RegExp accepts without throwing a SyntaxError.
RECURSIVE IsPattern(_)
IsPattern(source) ==
  IF source = <<>> THEN TRUE
  ELSE IF source[1] = "*" THEN FALSE
  ELSE LET n == IF source[1] = "\\" THEN 2 ELSE 1
           m == IF Len(source) > n /\ source[n + 1] = "*" THEN n + 1 ELSE n
       IN IF Len(source) < n THEN FALSE
          ELSE IsPattern(SubSeq(source, m + 1, Len(source)))

\* Canonicalize of the i flag, on the letters of the model's alphabet.
Fold(c) == IF c = "A" THEN "a" ELSE c

AtomMatches(atom, c, ignoreCase) ==
  \/ atom.any
  \/ IF ignoreCase THEN Fold(atom.ch) = Fold(c) ELSE atom.ch = c

\* The number of consecutive characters from offset p that the atom matches.
RECURSIVE RunLength(_, _, _, _)
RunLength(atom, str, p, ignoreCase) ==
  IF p < Len(str) /\ AtomMatches(atom, str[p + 1], ignoreCase)
  THEN 1 + RunLength(atom, str, p + 1, ignoreCase)
  ELSE 0

\* The end offset of the match of atoms[k..] at offset p that the
\* backtracking matcher finds first, or -1 when there is none.  A greedy *
\* takes the longest run of its atom and gives characters back one at a time
\* until the rest of the pattern matches.
RECURSIVE MatchFrom(_, _, _, _, _)
MatchFrom(atoms, k, str, p, ignoreCase) ==
  IF k > Len(atoms) THEN p
  ELSE IF atoms[k].star
  THEN LET taken == {j \in 0..RunLength(atoms[k], str, p, ignoreCase) :
                       MatchFrom(atoms, k + 1, str, p + j, ignoreCase) # -1}
       IN IF taken = {} THEN -1
          ELSE MatchFrom(atoms, k + 1, str,
                         p + (CHOOSE j \in taken : \A i \in taken : i <= j), ignoreCase)
  ELSE IF p < Len(str) /\ AtomMatches(atoms[k], str[p + 1], ignoreCase)
  THEN MatchFrom(atoms, k + 1, str, p + 1, ignoreCase)
  ELSE -1

\* The leftmost offset at or after i where the pattern matches, or -1.
RECURSIVE FirstMatch(_, _, _, _)
FirstMatch(atoms, str, i, ignoreCase) ==
  IF i > Len(str) THEN -1
  ELSE IF MatchFrom(atoms, 1, str, i, ignoreCase) # -1 THEN i
  ELSE FirstMatch(atoms, str, i + 1, ignoreCase)

\* regex.exec(str) of a global regex: the leftmost match at or after
\* lastIndex; null (found FALSE) resets lastIndex to 0.
RegExpExec(atoms, str, lastIndex, ignoreCase) ==
  LET i == FirstMatch(atoms, str, lastIndex, ignoreCase)
  IN IF i = -1
     THEN [found |-> FALSE, index |-> 0, lastIndex |-> 0]
     ELSE [found |-> TRUE, index |-> i,
           lastIndex |-> MatchFrom(atoms, 1, str, i, ignoreCase)]

\* ------------------------------------------------------------ combineChunks
\* chunks.sort((first, second) => first.start - second.start): stable.
SortedInsert(chunk, sorted) ==
  LET k == Cardinality({i \in DOMAIN sorted : sorted[i].start < chunk.start})
  IN SubSeq(sorted, 1, k) \o <<chunk>> \o SubSeq(sorted, k + 1, Len(sorted))

RECURSIVE SortByStart(_)
SortByStart(chunks) ==
  IF chunks = <<>> THEN <<>>
  ELSE SortedInsert(Head(chunks), SortByStart(Tail(chunks)))

\* The reduce callback with < for <=: touching chunks are kept apart.
MergeStepStrict(processedChunks, nextChunk) ==
  IF Len(processedChunks) = 0 THEN <<nextChunk>>
  ELSE LET prevChunk == processedChunks[Len(processedChunks)]
           popped == SubSeq(processedChunks, 1, Len(processedChunks) - 1)
       IN IF nextChunk.start < prevChunk.end
          THEN Append(popped, Chunk(prevChunk.start, Max(prevChunk.end, nextChunk.end),
                                    FALSE, None, None))
          ELSE popped \o <<prevChunk, nextChunk>>

\* The reduce callback pushing nextChunk after the chunk it was merged into.
MergeStepKeepsNext(processedChunks, nextChunk) ==
  IF Len(processedChunks) = 0 THEN <<nextChunk>>
  ELSE LET prevChunk == processedChunks[Len(processedChunks)]
           popped == SubSeq(processedChunks, 1, Len(processedChunks) - 1)
       IN IF nextChunk.start <= prevChunk.end
          THEN popped \o <<Chunk(prevChunk.start, Max(prevChunk.end, nextChunk.end),
                                  FALSE, None, None), nextChunk>>
          ELSE popped \o <<prevChunk, nextChunk>>

\* The callback of the reduce (merge policy).
MergeStep(processedChunks, nextChunk) ==
  IF Len(processedChunks) = 0 THEN <<nextChunk>>
  ELSE LET prevChunk == processedChunks[Len(processedChunks)]
           popped == SubSeq(processedChunks, 1, Len(processedChunks) - 1)
       IN IF nextChunk.start <= prevChunk.end
          THEN LET endIndex == Max(prevChunk.end, nextChunk.end)
               IN Append(popped, Chunk(prevChunk.start, endIndex, FALSE, None, None))
          ELSE popped \o <<prevChunk, nextChunk>>

RECURSIVE MergeReduce(_, _)
MergeReduce(processedChunks, rest) ==
  IF rest = <<>> THEN processedChunks
  ELSE MergeReduce(MergeStep(processedChunks, Head(rest)), Tail(rest))

MergeChunks(chunks) == MergeReduce(<<>>, SortByStart(chunks))

\* list[0]: undefined for an empty list.
First(list) == IF list = <<>> THEN None ELSE Some(list[1])

\* What one chunk pushes on mappings[chunk[position]].
ChunkEvents(chunk, position) ==
  (IF IsSome(chunk.searchWordsIndexes)
   THEN <<[position |-> position,
           searchWordIndex |-> First(Get(chunk.searchWordsIndexes)),
           spanIndex |-> None]>>
   ELSE <<>>)
  \o
  (IF IsSome(chunk.spansIndexes)
   THEN <<[position |-> position,
           searchWordIndex |-> None,
           spanIndex |-> First(Get(chunk.spansIndexes))]>>
   ELSE <<>>)

\* mappings[key] after the forEach over the chunks.
RECURSIVE Mappings(_, _)
Mappings(chunks, key) ==
  IF chunks = <<>> THEN <<>>
  ELSE LET chunk == Head(chunks)
       IN (IF chunk.start = key THEN ChunkEvents(chunk, "start") ELSE <<>>)
          \o (IF chunk.end = key THEN ChunkEvents(chunk, "end") ELSE <<>>)
          \o Mappings(Tail(chunks), key)

\* A set of integers as an ascending sequence.
RECURSIVE Ascending(_)
Ascending(S) ==
  IF S = {} THEN <<>>
  ELSE LET m == CHOOSE x \in S : \A y \in S : x <= y
       IN <<m>> \o Ascending(S \ {m})

\* Object.keys(mappings).map(key => parseInt(key)).sort((a, b) => a - b): the
\* keys are the decimal strings of the integer offsets, which parseInt reads back.
IntervalBoundaries(chunks) ==
  Ascending({chunks[i].start : i \in DOMAIN chunks} \cup {chunks[i].end : i \in DOMAIN chunks})

\* array.indexOf(value), 0-based, -1 when absent.
IndexOf(array, value) ==
  IF \E i \in DOMAIN array : array[i] = value
  THEN (CHOOSE i \in DOMAIN array : array[i] = value /\ \A j \in 1..(i - 1) : array[j] # value) - 1
  ELSE -1

\* array.splice(index, 1): a negative index counts from the end.
Splice(array, index) ==
  LET at == IF index < 0 THEN Max(Len(array) + index, 0) ELSE index
  IN IF at >= Len(array) THEN array
     ELSE SubSeq(array, 1, at) \o SubSeq(array, at + 2, Len(array))

\* The decimal digits of a non-negative integer: String(n).
RECURSIVE Digits(_)
Digits(n) == IF n < 10 THEN <<n>> ELSE Digits(n \div 10) \o <<n % 10>>

\* a < b as strings (by code unit).
RECURSIVE LexLess(_, _)
LexLess(a, b) ==
  IF b = <<>> THEN FALSE
  ELSE IF a = <<>> THEN TRUE
  ELSE IF a[1] # b[1] THEN a[1] < b[1]
  ELSE LexLess(Tail(a), Tail(b))

\* The comparison of array.sort() without a comparator.
SortLess(x, y) == LexLess(Digits(x), Digits(y))

DefaultSortInsert(x, sorted) ==
  LET k == Cardinality({i \in DOMAIN sorted : SortLess(sorted[i], x)})
  IN SubSeq(sorted, 1, k) \o <<x>> \o SubSeq(sorted, k + 1, Len(sorted))

\* array.sort()
RECURSIVE DefaultSort(_)
DefaultSort(array) ==
  IF array = <<>> THEN <<>>
  ELSE DefaultSortInsert(Head(array), DefaultSort(Tail(array)))

\* The forEach over the 'end' events of a boundary: each removes one index.
RECURSIVE RemoveEnded(_, _, _)
RemoveEnded(events, activeSearchWordsIndexes, activeSpansIndexes) ==
  IF events = <<>> THEN <<activeSearchWordsIndexes, activeSpansIndexes>>
  ELSE LET value == Head(events)
           sw == IF value.position = "end" /\ IsSome(value.searchWordIndex)
                 THEN Splice(activeSearchWordsIndexes,
                             IndexOf(activeSearchWordsIndexes, Get(value.searchWordIndex)))
                 ELSE activeSearchWordsIndexes
           sp == IF value.position = "end" /\ IsSome(value.spanIndex)
                 THEN Splice(activeSpansIndexes,
                             IndexOf(activeSpansIndexes, Get(value.spanIndex)))
                 ELSE activeSpansIndexes
       IN RemoveEnded(Tail(events), sw, sp)

\* mappings[start].filter(searchWordIndex !== undefined && position === 'start')
\*   .map(value => value.searchWordIndex)
RECURSIVE StartedSearchWords(_)
StartedSearchWords(events) ==
  IF events = <<>> THEN <<>>
  ELSE (IF Head(events).position = "start" /\ IsSome(Head(events).searchWordIndex)
        THEN <<Get(Head(events).searchWordIndex)>> ELSE <<>>)
       \o StartedSearchWords(Tail(events))

RECURSIVE StartedSpans(_)
StartedSpans(events) ==
  IF events = <<>> THEN <<>>
  ELSE (IF Head(events).position = "start" /\ IsSome(Head(events).spanIndex)
        THEN <<Get(Head(events).spanIndex)>> ELSE <<>>)
       \o StartedSpans(Tail(events))

\* The for loop over the boundaries (split policy), from iteration i (1-based).
RECURSIVE Sweep(_, _, _, _, _, _)
Sweep(raw, intervalBoundaries, i, activeSearchWordsIndexes, activeSpansIndexes, out) ==
  IF i > Len(intervalBoundaries) - 1 THEN out
  ELSE LET start == intervalBoundaries[i]
           end == intervalBoundaries[i + 1]
           events == Mappings(raw, start)
           kept == RemoveEnded(events, activeSearchWordsIndexes, activeSpansIndexes)
           sw == DefaultSort(kept[1] \o StartedSearchWords(events))
           sp == DefaultSort(kept[2] \o StartedSpans(events))
           splitChunk == Chunk(start, end, FALSE,
                               IF Len(sw) > 0 THEN Some(sw) ELSE None,
                               IF Len(sp) > 0 THEN Some(sp) ELSE None)
       IN Sweep(raw, intervalBoundaries, i + 1, sw, sp,
                IF Len(sw) > 0 \/ Len(sp) > 0 THEN Append(out, splitChunk) ELSE out)

SplitChunks(chunks) == Sweep(chunks, IntervalBoundaries(chunks), 1, <<>>, <<>>, <<>>)

\* The value combineChunks returns.
combineChunks(chunks, splitIntersectingChunks) ==
  IF ~splitIntersectingChunks THEN MergeChunks(chunks) ELSE SplitChunks(chunks)

\* The caller's array after the call: the merge policy sorts it in place.
CallerChunksAfter(chunks, splitIntersectingChunks) ==
  IF ~splitIntersectingChunks THEN SortByStart(chunks) ELSE chunks

\* ------------------------------------------------------------- fillInChunks
\* append without its test of the length: empty gaps are emitted too.
AppendChunkAlways(allChunks, start, end, highlight, searchWordsIndexes, spansIndexes) ==
  Append(allChunks,
         Chunk(start, end, highlight, searchWordsIndexes,
               IF IsSome(spansIndexes) /\ Len(Get(spansIndexes)) > 0
               THEN spansIndexes ELSE None))

\* The local function append of fillInChunks.
AppendChunk(allChunks, start, end, highlight, searchWordsIndexes, spansIndexes) ==
  IF end - start > 0
  THEN Append(allChunks,
              Chunk(start, end, highlight, searchWordsIndexes,
                    IF IsSome(spansIndexes) /\ Len(Get(spansIndexes)) > 0
                    THEN spansIndexes ELSE None))
  ELSE allChunks

RECURSIVE FillLoop(_, _, _)
FillLoop(rest, lastIndex, allChunks) ==
  IF rest = <<>> THEN <<lastIndex, allChunks>>
  ELSE LET chunk == Head(rest)
           gap == AppendChunk(allChunks, lastIndex, chunk.start, FALSE, None, None)
       IN FillLoop(Tail(rest), chunk.end,
                   AppendChunk(gap, chunk.start, chunk.end, TRUE,
                               chunk.searchWordsIndexes, chunk.spansIndexes))

fillInChunks(chunksToHighlight, totalLength) ==
  IF Len(chunksToHighlight) = 0
  THEN AppendChunk(<<>>, 0, totalLength, FALSE, None, None)
  ELSE LET done == FillLoop(chunksToHighlight, 0, <<>>)
       IN AppendChunk(done[2], done[1], totalLength, FALSE, None, None)

\* -------------------------------------------------------------------- state
VARIABLES
  searchWords,              \* findAll's searchWords: a list of strings
  textToHighlight,          \* a string, undefined or null
  spans,                    \* None, or Some(list of <<lo, hi>>)
  splitIntersectingChunks,  \* the combination policy (absent = FALSE)
  caseSensitive,
  autoEscape,
  pc,                       \* the place of the call in the code
  searchWordIndex,          \* the reduce's index into the filtered words
  lastIndex,                \* regex.lastIndex
  match,                    \* the loop's match: found FALSE is null
  chunks,                   \* the raw chunks; combineChunks' argument
  chunksToHighlight,        \* combineChunks' result; fillInChunks' argument
  totalLength,
  allChunks,                \* fillInChunks' result
  recombined                \* combineChunks applied to its own result

vars == <<searchWords, textToHighlight, spans, splitIntersectingChunks,
          caseSensitive, autoEscape, pc, searchWordIndex, lastIndex, match,
          chunks, chunksToHighlight, totalLength, allChunks, recombined>>

config == <<searchWords, textToHighlight, spans, splitIntersectingChunks,
            caseSensitive, autoEscape>>

\* ------------------------------------------------------------------- inputs
RECURSIVE SeqsUpTo(_, _)
SeqsUpTo(S, n) ==
  IF n = 0 THEN {<<>>}
  ELSE LET shorter == SeqsUpTo(S, n - 1)
       IN shorter \cup {Append(q, x) : q \in shorter, x \in S}

Alphabet == {"a", "A", "."}

Texts == {JsString(t) : t \in SeqsUpTo(Alphabet, MaxTextLen)} \cup {Undefined, Null}

\* The search words: the empty word, literals and patterns that match the
\* empty string.
Terms == {<<>>, <<"a">>, <<".">>, <<"a", "*">>, <<".", "*">>}

SpanPairs == (0..MaxPos) \X (0..MaxPos)

SpanLists == {None} \cup {Some(l) : l \in SeqsUpTo(SpanPairs, MaxSpans)}

\* ------------------------------------------------------- defaultFindChunks
\* searchWords.filter(searchWord => searchWord)
FilteredWords == SelectSeq(searchWords, LAMBDA searchWord : searchWord # <<>>)

\* The regex of the reduce's current search word.
RegexOf(searchWord) ==
  LET sanitized == defaultSanitize(searchWord)
  IN ParseRegExp(IF autoEscape THEN escapeRegExpFn(sanitized) ELSE sanitized)

\* What regex.exec reads: the sanitized text, converted to a string.
Subject == JsToString(defaultSanitize(textToHighlight))

\* The guard left out: lastIndex stays where exec put it.
AdvanceLastIndexNoGuard(index, regexLastIndex) == regexLastIndex

\* if (match.index === regex.lastIndex) { regex.lastIndex++ }
AdvanceLastIndex(index, regexLastIndex) ==
  IF index = regexLastIndex THEN regexLastIndex + 1 ELSE regexLastIndex

\* The chunk of one match.
MatchChunk(start, end, index) ==
  Chunk(start, end, FALSE,
        IF splitIntersectingChunks THEN Some(<<index>>) ELSE None, None)

\* spans.forEach((span, spanIndex) => spansChunks.push(...))
SpansChunks ==
  IF splitIntersectingChunks /\ IsSome(spans)
  THEN [i \in 1..Len(Get(spans)) |->
          Chunk(Get(spans)[i][1], Get(spans)[i][2], FALSE, None, Some(<<i - 1>>))]
  ELSE <<>>

NoMatch == [found |-> FALSE, index |-> 0]

Init ==
  /\ searchWords \in SeqsUpTo(Terms, MaxWords)
  /\ autoEscape \in BOOLEAN
  /\ \A i \in DOMAIN searchWords :
       IsPattern(IF autoEscape THEN escapeRegExpFn(searchWords[i]) ELSE searchWords[i])
  /\ textToHighlight \in Texts
  /\ spans \in SpanLists
  /\ splitIntersectingChunks \in BOOLEAN
  /\ caseSensitive \in BOOLEAN
  /\ pc = "reduce"
  /\ searchWordIndex = 0
  /\ lastIndex = 0
  /\ match = NoMatch
  /\ chunks = <<>>
  /\ chunksToHighlight = <<>>
  /\ totalLength = 0
  /\ allChunks = <<>>
  /\ recombined = <<>>

\* The reduce callback starts on the next filtered word: new RegExp(...).
NewRegExp ==
  /\ pc = "reduce"
  /\ searchWordIndex < Len(FilteredWords)
  /\ lastIndex' = 0
  /\ pc' = "exec"
  /\ UNCHANGED <<config, match, searchWordIndex, chunks, chunksToHighlight, totalLength,
                 allChunks, recombined>>

\* The loop condition `(match = regex.exec(textToHighlight))`.
Exec ==
  /\ pc = "exec"
  /\ \E regex \in {RegexOf(FilteredWords[searchWordIndex + 1])}, str \in {Subject} :
       \E result \in {RegExpExec(regex, str, lastIndex, ~caseSensitive)} :
         /\ match' = [found |-> result.found, index |-> result.index]
         /\ lastIndex' = result.lastIndex
  /\ pc' = "body"
  /\ UNCHANGED <<config, searchWordIndex, chunks, chunksToHighlight, totalLength,
                 allChunks, recombined>>

\* The body of the loop, for a match.
LoopBody ==
  /\ pc = "body"
  /\ match.found
  /\ LET start == match.index
         end == lastIndex
     IN chunks' = IF end > start
                  THEN Append(chunks, MatchChunk(start, end, searchWordIndex))
                  ELSE chunks
  /\ lastIndex' = AdvanceLastIndex(match.index, lastIndex)
  /\ pc' = "exec"
  /\ UNCHANGED <<config, match, searchWordIndex, chunksToHighlight, totalLength,
                 allChunks, recombined>>

\* match is null: the loop ends and the callback returns.
LoopExit ==
  /\ pc = "body"
  /\ ~match.found
  /\ searchWordIndex' = searchWordIndex + 1
  /\ pc' = "reduce"
  /\ UNCHANGED <<config, match, lastIndex, chunks, chunksToHighlight, totalLength,
                 allChunks, recombined>>

\* After the reduce: the chunks of the spans, and the return.
ReturnChunks ==
  /\ pc = "reduce"
  /\ searchWordIndex = Len(FilteredWords)
  /\ chunks' = chunks \o SpansChunks
  /\ pc' = "combine"
  /\ UNCHANGED <<config, match, searchWordIndex, lastIndex, chunksToHighlight, totalLength,
                 allChunks, recombined>>

\* findAll's call of combineChunks, and the totalLength argument.
Combine ==
  /\ pc = "combine"
  /\ chunksToHighlight' = combineChunks(chunks, splitIntersectingChunks)
  /\ chunks' = CallerChunksAfter(chunks, splitIntersectingChunks)
  /\ totalLength' = IF Truthy(textToHighlight) THEN Len(textToHighlight.value) ELSE 0
  /\ pc' = "fill"
  /\ UNCHANGED <<config, match, searchWordIndex, lastIndex, allChunks, recombined>>

\* findAll's call of fillInChunks, and its return.
FillIn ==
  /\ pc = "fill"
  /\ allChunks' = fillInChunks(chunksToHighlight, totalLength)
  /\ pc' = "done"
  /\ UNCHANGED <<config, match, searchWordIndex, lastIndex, chunks, chunksToHighlight,
                 totalLength, recombined>>

Next ==
  \/ NewRegExp
  \/ Exec
  \/ LoopBody
  \/ LoopExit
  \/ ReturnChunks
  \/ Combine
  \/ FillIn

\* findAll with the default match finder.
Spec == Init /\ [][Next]_vars

\* findAll on a single list of at most MaxScanWords words, without spans: the
\* calls in which the scan loops of the match finder are followed to their end.
InitScan ==
  /\ Init
  /\ Len(searchWords) <= MaxScanWords
  /\ spans = None

\* The steps of the scan loop.
Scan == Exec \/ LoopBody \/ LoopExit

\* The call is synchronous: a scan loop that can take a step takes it.
ScanSpec == InitScan /\ [][Next]_vars /\ WF_vars(Scan)

\* ------------------------------------------- combineChunks, called directly
\* The state of a direct call of an exported function: only the arguments
\* and the results are used.
DirectCall ==
  /\ searchWords = <<>>
  /\ textToHighlight = JsString(<<>>)
  /\ spans = None
  /\ caseSensitive = FALSE
  /\ autoEscape = FALSE
  /\ searchWordIndex = 0
  /\ lastIndex = 0
  /\ match = NoMatch
  /\ allChunks = <<>>
  /\ recombined = <<>>

\* The half-open intervals [start, end) with 0 <= start < end <= n.
Intervals(n) == {iv \in (0..n) \X (0..n) : iv[1] < iv[2]}

\* Raw chunks as the merge policy meets them: without index lists (the default
\* match finder) or with a term index (a match finder of the caller's).
MergeInputs ==
  {Chunk(iv[1], iv[2], FALSE, sw, None) :
     iv \in Intervals(MaxPos), sw \in {None, Some(<<0>>)}}

\* Raw chunks of the split policy: occurrences of the terms 2 and 10, the
\* spans 2 and 10.
SplitIndexes == {2, 10}

SplitInputs ==
  {Chunk(iv[1], iv[2], FALSE, Some(<<i>>), None) : iv \in Intervals(MaxPos), i \in SplitIndexes}
  \cup
  {Chunk(iv[1], iv[2], FALSE, None, Some(<<i>>)) : iv \in Intervals(MaxPos), i \in SplitIndexes}

InitMerge ==
  /\ DirectCall
  /\ chunks \in SeqsUpTo(MergeInputs, MaxChunks)
  /\ splitIntersectingChunks = FALSE
  /\ chunksToHighlight = <<>>
  /\ totalLength = 0
  /\ pc = "combineChunks"

InitSplit ==
  /\ DirectCall
  /\ chunks \in SeqsUpTo(SplitInputs, MaxChunks)
  /\ splitIntersectingChunks = TRUE
  /\ chunksToHighlight = <<>>
  /\ totalLength = 0
  /\ pc = "combineChunks"

\* combineChunks({chunks, splitIntersectingChunks})
CallCombineChunks ==
  /\ pc = "combineChunks"
  /\ chunksToHighlight' = combineChunks(chunks, splitIntersectingChunks)
  /\ chunks' = CallerChunksAfter(chunks, splitIntersectingChunks)
  /\ pc' = "combined"
  /\ UNCHANGED <<config, match, searchWordIndex, lastIndex, totalLength, allChunks,
                 recombined>>

\* combineChunks on the list the first call returned.
CallCombineChunksAgain ==
  /\ pc = "combined"
  /\ recombined' = combineChunks(chunksToHighlight, splitIntersectingChunks)
  /\ chunksToHighlight' = CallerChunksAfter(chunksToHighlight, splitIntersectingChunks)
  /\ pc' = "recombined"
  /\ UNCHANGED <<config, match, searchWordIndex, lastIndex, chunks, totalLength,
                 allChunks>>

NextCombine == CallCombineChunks \/ CallCombineChunksAgain

MergeSpec == InitMerge /\ [][NextCombine]_vars

SplitSpec == InitSplit /\ [][NextCombine]_vars

\* -------------------------------------------- fillInChunks, called directly
\* The index lists a chunk to highlight may carry: absent, empty, one index.
IndexLists == {None, Some(<<>>), Some(<<0>>)}

\* The lists of at most n chunks within [lo, MaxTotalLength], sorted by start
\* and pairwise disjoint.
RECURSIVE DisjointChunkLists(_, _)
DisjointChunkLists(lo, n) ==
  IF n = 0 THEN {<<>>}
  ELSE {<<>>} \cup
       UNION {{<<Chunk(iv[1], iv[2], FALSE, sw, sp)>> \o rest :
                 sw \in IndexLists, sp \in IndexLists,
                 rest \in DisjointChunkLists(iv[2], n - 1)} :
              iv \in {x \in Intervals(MaxTotalLength) : x[1] >= lo}}

InitFill ==
  /\ DirectCall
  /\ chunks = <<>>
  /\ splitIntersectingChunks = FALSE
  /\ chunksToHighlight \in DisjointChunkLists(0, MaxFillChunks)
  /\ totalLength \in 0..MaxTotalLength
  /\ pc = "fillInChunks"

\* fillInChunks({chunksToHighlight, totalLength})
CallFillInChunks ==
  /\ pc = "fillInChunks"
  /\ allChunks' = fillInChunks(chunksToHighlight, totalLength)
  /\ pc' = "filled"
  /\ UNCHANGED <<config, match, searchWordIndex, lastIndex, chunks, chunksToHighlight,
                 totalLength, recombined>>

FillSpec == InitFill /\ [][CallFillInChunks]_vars

\* ================================================================== claims
\* The spans the specification calls well-formed: lo <= hi.
WellFormedSpans ==
  IsSome(spans) => \A i \in DOMAIN Get(spans) : Get(spans)[i][1] <= Get(spans)[i][2]

\* list is a partition of [0, L) into non-empty chunks, in order.
IsPartition(list, L) ==
  /\ (L = 0) <=> (list = <<>>)
  /\ list # <<>> => list[1].start = 0 /\ list[Len(list)].end = L
  /\ \A i \in DOMAIN list : list[i].start < list[i].end
  /\ \A i \in 1..(Len(list) - 1) : list[i].end = list[i + 1].start

\* C1: for every text of length L, all search words, either policy and all
\* spans with lo <= hi, the chunks findAll returns partition [0, L): they
\* start at 0, each ends where the next starts, the last ends at L, none is
\* empty (and there are none when L = 0).
C1_FindAllPartitionsText ==
  (pc = "done" /\ textToHighlight.type = "string" /\ WellFormedSpans)
    => IsPartition(allChunks, Len(textToHighlight.value))

\* C2: findAll returns the empty list whenever textToHighlight is the empty
\* string, undefined or null, whatever the search words, policy, spans,
\* caseSensitive and autoEscape.
C2_EmptyTextGivesNoChunks ==
  (pc = "done" /\ ~Truthy(textToHighlight)) => allChunks = <<>>

\* The offsets a list of chunks covers.
Offsets(list) == UNION {list[i].start..(list[i].end - 1) : i \in DOMAIN list}

\* C3: under the merge policy, for raw chunks with start < end in any order,
\* combineChunks returns chunks sorted by start, with each end strictly below
\* the next start, covering exactly the offsets the raw chunks cover; raw
\* chunks that overlap or touch end up in one chunk.
C3_MergeIsDisjointUnion ==
  pc = "combined" =>
    /\ \A i \in 1..(Len(chunksToHighlight) - 1) :
         /\ chunksToHighlight[i].start < chunksToHighlight[i + 1].start
         /\ chunksToHighlight[i].end < chunksToHighlight[i + 1].start
    /\ \A i \in DOMAIN chunksToHighlight :
         chunksToHighlight[i].start < chunksToHighlight[i].end
    /\ Offsets(chunksToHighlight) = Offsets(chunks)
    /\ \A i, j \in DOMAIN chunks :
         (chunks[j].start <= chunks[i].end /\ chunks[i].start <= chunks[j].end)
           => \E k \in DOMAIN chunksToHighlight :
                /\ chunksToHighlight[k].start <= chunks[i].start
                /\ chunksToHighlight[k].start <= chunks[j].start
                /\ chunks[i].end <= chunksToHighlight[k].end
                /\ chunks[j].end <= chunksToHighlight[k].end

\* Three raw chunks, each touching the next, have become one chunk.
C3_Witness ==
  /\ pc = "combined"
  /\ Len(chunks) = 3
  /\ Len(chunksToHighlight) = 1
  /\ \A i \in 1..2 : chunks[i].end = chunks[i + 1].start

\* The indexes of an optional index list, as a set.
IndexSet(indexes) ==
  IF IsSome(indexes) THEN {Get(indexes)[i] : i \in DOMAIN Get(indexes)} ELSE {}

RawBoundaries(raw) ==
  {raw[i].start : i \in DOMAIN raw} \cup {raw[i].end : i \in DOMAIN raw}

\* The pairs of consecutive distinct boundaries.
AtomicIntervals(raw) ==
  {<<b, e>> \in RawBoundaries(raw) \X RawBoundaries(raw) :
     b < e /\ ~\E m \in RawBoundaries(raw) : b < m /\ m < e}

\* The term (span) indexes whose half-open raw interval contains [b, e).
CoveringSearchWords(raw, b, e) ==
  UNION {IndexSet(raw[i].searchWordsIndexes) :
           i \in {j \in DOMAIN raw : raw[j].start <= b /\ e <= raw[j].end}}

CoveringSpans(raw, b, e) ==
  UNION {IndexSet(raw[i].spansIndexes) :
           i \in {j \in DOMAIN raw : raw[j].start <= b /\ e <= raw[j].end}}

\* out is exactly the covered atomic intervals of raw, each once, each
\* tagged with exactly the indexes that cover it.
IsCoverage(raw, out) ==
  /\ {<<out[i].start, out[i].end>> : i \in DOMAIN out}
       = {iv \in AtomicIntervals(raw) :
            CoveringSearchWords(raw, iv[1], iv[2]) \cup CoveringSpans(raw, iv[1], iv[2]) # {}}
  /\ \A i, j \in DOMAIN out : out[i].start = out[j].start => i = j
  /\ \A i \in DOMAIN out :
       /\ IndexSet(out[i].searchWordsIndexes) = CoveringSearchWords(raw, out[i].start, out[i].end)
       /\ IndexSet(out[i].spansIndexes) = CoveringSpans(raw, out[i].start, out[i].end)

\* C4: under the split policy, for the raw chunks the match finder makes of
\* the occurrences of the search words and of spans with lo <= hi,
\* combineChunks emits exactly the covered pairs of consecutive boundaries,
\* each tagged with exactly the term and span indexes whose half-open
\* interval contains it.
C4_SplitChunksAreCoverage ==
  (pc = "fill" /\ splitIntersectingChunks /\ WellFormedSpans)
    => IsCoverage(chunks, chunksToHighlight)

\* The position in searchWords (0-based) of the k-th (0-based) non-empty word.
OriginalPosition(k) ==
  (CHOOSE p \in DOMAIN searchWords :
     /\ searchWords[p] # <<>>
     /\ Cardinality({q \in 1..(p - 1) : searchWords[q] # <<>>}) = k) - 1

\* C5: under the split policy the index the match finder puts on a raw chunk
\* is the position, in searchWords as the caller passed it, of the word whose
\* occurrence the chunk is, also when empty words precede it.
C5_IndexIsOriginalPosition ==
  [][(pc = "body" /\ splitIntersectingChunks /\ Len(chunks') > Len(chunks))
       => chunks'[Len(chunks')].searchWordsIndexes
            = Some(<<OriginalPosition(searchWordIndex)>>)]_vars

\* C6: the scan loop of every search word ends, also for patterns that match
\* the empty string: lastIndex grows on every iteration of the loop, an
\* empty match at p moving it to p + 1.
C6_ScanTerminates ==
  /\ [][/\ (pc = "exec" /\ match'.found) => match'.index >= lastIndex
        /\ (pc = "body" /\ match.found) => lastIndex' > match.index]_vars
  /\ (pc = "exec") ~> (pc = "reduce")

\* An empty match at the end of a non-empty text has moved lastIndex past it.
C6_Witness ==
  pc = "exec" /\ Len(Subject) > 0 /\ lastIndex = Len(Subject) + 1

\* The chunks to highlight all lie within [0, totalLength].
InRange == \A i \in DOMAIN chunksToHighlight : chunksToHighlight[i].end <= totalLength

Highlighted(list) == SelectSeq(list, LAMBDA chunk : chunk.highlight)

\* The chunks fillInChunks adds: list partitions [0, totalLength), its chunks
\* without highlight carry no index lists, and no two of them are adjacent.
GapsFilled ==
  /\ IsPartition(allChunks, totalLength)
  /\ \A i \in DOMAIN allChunks :
       ~allChunks[i].highlight
         => allChunks[i].searchWordsIndexes = None /\ allChunks[i].spansIndexes = None
  /\ \A i \in 1..(Len(allChunks) - 1) : allChunks[i].highlight \/ allChunks[i + 1].highlight

\* C7 as claimed: for chunks to highlight that are sorted, disjoint and within
\* [0, totalLength], fillInChunks returns every one of them, in order, with
\* highlight true and both index lists unchanged, with one chunk without
\* highlight and without index lists in every non-empty gap and tail, and no
\* empty chunk.
C7_FillKeepsIndexLists ==
  (pc = "filled" /\ InRange) =>
    /\ GapsFilled
    /\ Highlighted(allChunks)
         = [i \in DOMAIN chunksToHighlight |->
              [chunksToHighlight[i] EXCEPT !.highlight = TRUE]]

\* C7, amended: as claimed, except that an empty span index list is not
\* carried over (the chunk is returned without a span index list); the term
\* index list is carried over unchanged, also when it is empty.
C7_FillDropsEmptySpanList ==
  (pc = "filled" /\ InRange) =>
    /\ GapsFilled
    /\ Highlighted(allChunks)
         = [i \in DOMAIN chunksToHighlight |->
              [chunksToHighlight[i] EXCEPT
                 !.highlight = TRUE,
                 !.spansIndexes = IF @ = Some(<<>>) THEN None ELSE @]]

\* Two chunks apart, a tail after them, one with an empty span index list.
C7_Witness ==
  /\ pc = "filled"
  /\ InRange
  /\ Len(chunksToHighlight) = 2
  /\ Len(allChunks) = 4
  /\ \E i \in DOMAIN chunksToHighlight : chunksToHighlight[i].spansIndexes = Some(<<>>)

\* C8: the merge policy is idempotent: combineChunks of the list combineChunks
\* returned is that list again.
C8_MergeIdempotent ==
  [][pc = "combined" => recombined' = chunksToHighlight]_vars

\* The second call has returned, on a list the first call had merged.
C8_Witness ==
  /\ pc = "recombined"
  /\ Len(recombined) = 2
  /\ Len(chunks) = 3

\* C9: under the merge policy no chunk combineChunks returns carries a term
\* index list or a span index list, whatever the raw chunks carry, merged or
\* not.
C9_MergeDropsIndexLists ==
  (pc = "combined" /\ ~splitIntersectingChunks) =>
    \A i \in DOMAIN chunksToHighlight :
      /\ chunksToHighlight[i].searchWordsIndexes = None
      /\ chunksToHighlight[i].spansIndexes = None

\* The list holds integers in ascending order.
IsAscending(list) == \A i \in 1..(Len(list) - 1) : list[i] <= list[i + 1]

\* C10: under the split policy the term index list and the span index list of
\* every chunk combineChunks emits are in ascending order as integers, also
\* for indexes of two digits.
C10_IndexListsAscending ==
  (pc = "combined" /\ splitIntersectingChunks) =>
    \A i \in DOMAIN chunksToHighlight :
      /\ IsSome(chunksToHighlight[i].searchWordsIndexes)
           => IsAscending(Get(chunksToHighlight[i].searchWordsIndexes))
      /\ IsSome(chunksToHighlight[i].spansIndexes)
           => IsAscending(Get(chunksToHighlight[i].spansIndexes))

\* C11: combineChunks leaves the list the caller passed as it was: the same
\* chunks in the same order, none of them modified.
C11_CombineLeavesInputUnchanged ==
  [][pc = "combineChunks" => chunks' = chunks]_vars

\* The indexes (0-based) of the spans with lo > hi.
MalformedSpanIndexes ==
  IF IsSome(spans)
  THEN {i - 1 : i \in {j \in DOMAIN Get(spans) : Get(spans)[j][1] > Get(spans)[j][2]}}
  ELSE {}

\* The raw chunks without those of the spans with lo > hi.
WithoutMalformed(raw) ==
  SelectSeq(raw, LAMBDA chunk : ~(IsSome(chunk.spansIndexes) /\ chunk.start > chunk.end))

\* The term indexes and the span indexes list puts on the offset x.
CoverAt(list, x) ==
  <<UNION {IndexSet(list[i].searchWordsIndexes) :
             i \in {j \in DOMAIN list : list[j].start <= x /\ x < list[j].end}},
    UNION {IndexSet(list[i].spansIndexes) :
             i \in {j \in DOMAIN list : list[j].start <= x /\ x < list[j].end}}>>

\* C12: under the split policy a span with lo > hi is ignored: no chunk
\* combineChunks emits carries its index, and every offset carries the term
\* and span indexes it carries when the raw chunks are combined without that
\* span.
C12_MalformedSpanIgnored ==
  (pc = "fill" /\ splitIntersectingChunks /\ MalformedSpanIndexes # {}) =>
    /\ \A i \in DOMAIN chunksToHighlight :
         IndexSet(chunksToHighlight[i].spansIndexes) \cap MalformedSpanIndexes = {}
    /\ \A x \in Offsets(chunksToHighlight) \cup Offsets(SplitChunks(WithoutMalformed(chunks))) :
         CoverAt(chunksToHighlight, x) = CoverAt(SplitChunks(WithoutMalformed(chunks)), x)

=============================================================================
